---- MODULE Spec2Model ----
(***************************************************************************)
(* Retrieval core of the e-commerce recommendation backend:                *)
(*   VectorStore      backend/data/product_catalog.py (the full class).    *)
(*                    The retriever imports the class from                 *)
(*                    backend/database/vector_store.py, whose text stops   *)
(*                    after get_embedding; its __init__, add_embedding and *)
(*                    get_embedding are the same, and search and           *)
(*                    get_embedding_matrix are those of the full class.    *)
(*   QueryParser      backend/rag/retriever.py                             *)
(*   EmbeddingService backend/rag/embeddings.py                            *)
(*   ProductRetriever backend/rag/retriever.py                             *)
(*   API process      backend/api/app.py (startup_event, query_products)   *)
(* Numbers are exact: a cosine similarity is kept as the signed square     *)
(* num/den of the real value, so ties and order are those of real          *)
(* arithmetic (floating-point rounding is not modelled).                   *)
(***************************************************************************)
EXTENDS Integers, Sequences, FiniteSets, TLC

VARIABLES
    store,       \* the VectorStore (the retriever's vector_store)
    hist,        \* what callers have inserted into the stand-alone index
    query,       \* the text handed to the query parser
    catalog,     \* ProductCatalog.products
    vectorizer,  \* EmbeddingService: is_fitted and the fitted vocabulary
    lastOp,      \* the call that has just returned, with its result
    app          \* the API process: started, the global retriever, startup's failure

vars == <<store, hist, query, catalog, vectorizer, lastOp, app>>

(***************************************************************************)
(* Bounds and input domains                                                *)
(***************************************************************************)
\* embedding_dim values the stand-alone index is constructed with
Dims == {1, 2}
\* top_k ranges over 0..MaxK
MaxK == 3
\* vector components
Comp == {0, 1}
\* product ids
Ids == {"a", "b", "c"}
\* values an uninitialized float64 cell may hold (finite representatives)
GarbageVals == {-1, 0, 1}

\* a text is a sequence of whitespace-separated tokens; texts handed to the
\* query parser on its own have at most MaxQueryLen tokens over ParserTokens
MaxQueryLen == 6
ParserTokens == {"under", "UNDER", "over", "between", "and", "7", "9"}
ParserQueries == UNION {[1..n -> ParserTokens] : n \in 0..MaxQueryLen}

Vectors(d) == [1..d -> Comp]
\* vectors offered to the index: the right length and one longer
InputVectors(d) == Vectors(d) \cup {[i \in 1..(d + 1) |-> 1]}

(***************************************************************************)
(* Arithmetic helpers                                                      *)
(***************************************************************************)
Min(a, b) == IF a < b THEN a ELSE b
Max(a, b) == IF a > b THEN a ELSE b

RECURSIVE DotUpTo(_, _, _)
DotUpTo(u, v, n) == IF n = 0 THEN 0 ELSE DotUpTo(u, v, n - 1) + u[n] * v[n]
\* np.dot of two vectors of one length
Dot(u, v) == DotUpTo(u, v, Len(u))
\* np.linalg.norm squared
Norm2(u) == Dot(u, u)

Reverse(s) == [i \in 1..Len(s) |-> s[Len(s) + 1 - i]]

\* Python s[start:]
PySliceFrom(s, start) ==
    LET n == Len(s)
        st == IF start < 0 THEN Max(start + n, 0) ELSE Min(start, n)
    IN SubSeq(s, st + 1, n)

\* A similarity x is the record [num, den] with sgn(x) * x^2 = num / den, den > 0.
SimOf(d, den) == [num |-> IF d < 0 THEN -(d * d) ELSE d * d, den |-> den]
SimLess(x, y) == x.num * y.den < y.num * x.den
SimEq(x, y) == x.num * y.den = y.num * x.den

(***************************************************************************)
(* VectorStore                                                             *)
(***************************************************************************)
NoMatrix == [present |-> FALSE, rows |-> <<>>]

\* VectorStore.__init__
NewStore(d) ==
    [embedding_dim |-> d, embeddings |-> <<>>, product_ids |-> <<>>,
     embedding_matrix |-> NoMatrix]

InList(x, s) == \E i \in 1..Len(s) : s[i] = x

\* dict assignment self.embeddings[product_id] = embedding
DictSet(f, key, val) ==
    [x \in (DOMAIN f) \cup {key} |-> IF x = key THEN val ELSE f[x]]

\* add_embedding invalidating the cached matrix before it checks the length
add_embedding_InvalidateFirst(s, product_id, embedding) ==
    IF Len(embedding) # s.embedding_dim
    THEN [err |-> "ValueError", store |-> [s EXCEPT !.embedding_matrix = NoMatrix]]
    ELSE [err |-> "none",
          store |-> [s EXCEPT
              !.embeddings = DictSet(s.embeddings, product_id, embedding),
              !.product_ids = IF InList(product_id, s.product_ids)
                              THEN s.product_ids
                              ELSE Append(s.product_ids, product_id),
              !.embedding_matrix = NoMatrix]]

\* add_embedding that keeps the cached matrix
add_embedding_KeepMatrix(s, product_id, embedding) ==
    IF Len(embedding) # s.embedding_dim
    THEN [err |-> "ValueError", store |-> s]
    ELSE [err |-> "none",
          store |-> [s EXCEPT
              !.embeddings = DictSet(s.embeddings, product_id, embedding),
              !.product_ids = IF InList(product_id, s.product_ids)
                              THEN s.product_ids
                              ELSE Append(s.product_ids, product_id)]]

\* VectorStore.add_embedding: [err, store]
add_embedding(s, product_id, embedding) ==
    IF Len(embedding) # s.embedding_dim
    THEN [err |-> "ValueError", store |-> s]
    ELSE [err |-> "none",
          store |-> [s EXCEPT
              !.embeddings = DictSet(s.embeddings, product_id, embedding),
              !.product_ids = IF InList(product_id, s.product_ids)
                              THEN s.product_ids
                              ELSE Append(s.product_ids, product_id),
              !.embedding_matrix = NoMatrix]]

\* VectorStore.get_embedding: [found, value]
get_embedding(s, product_id) ==
    IF product_id \in DOMAIN s.embeddings
    THEN [found |-> TRUE, value |-> s.embeddings[product_id]]
    ELSE [found |-> FALSE, value |-> <<>>]

\* VectorStore.get_embedding_matrix: the store with the matrix cached
get_embedding_matrix(s) ==
    IF ~s.embedding_matrix.present
    THEN [s EXCEPT !.embedding_matrix =
            [present |-> TRUE,
             rows |-> [i \in 1..Len(s.product_ids) |-> s.embeddings[s.product_ids[i]]]]]
    ELSE s

\* query_embedding / query_norm when query_norm > 0, else the query as it is
NormalizeQuery(q) == [v |-> q, n2 |-> IF Norm2(q) > 0 THEN Norm2(q) ELSE 1]

\* np.divide(embedding_matrix, norms, where=norms>0) with no out= array: a row
\* whose norm is 0 is never written and keeps whatever the fresh buffer held.
NormalizedOutcomes(rows, d) ==
    { [i \in 1..Len(rows) |->
         IF Norm2(rows[i]) > 0
         THEN [v |-> rows[i], n2 |-> Norm2(rows[i])]
         ELSE [v |-> [j \in 1..d |-> g[i]], n2 |-> 1]]
      : g \in [1..Len(rows) -> GarbageVals] }

\* np.dot(normalized_embeddings, query_embedding)
Similarities(nrows, nq) ==
    [i \in 1..Len(nrows) |-> SimOf(Dot(nrows[i].v, nq.v), nrows[i].n2 * nq.n2)]

\* np.argsort (default kind, not stable): any ascending order of the scores
ArgsortOutcomes(sims) ==
    { p \in [1..Len(sims) -> 1..Len(sims)] :
        /\ \A i, j \in 1..Len(sims) : i # j => p[i] # p[j]
        /\ \A i \in 1..(Len(sims) - 1) : ~SimLess(sims[p[i + 1]], sims[p[i]]) }

\* np.argsort(similarities)[-top_k:][::-1]
TopIndices(order, top_k) == Reverse(PySliceFrom(order, -top_k))

\* the (product_id, score) list built from top_indices
ResultList(s, sims, top) ==
    [i \in 1..Len(top) |-> [id |-> s.product_ids[top[i]], score |-> sims[top[i]]]]

\* search that cuts or zero-fills the query to the index dimension instead of
\* failing on a length that differs
search_AnyLength(s, query_embedding, top_k) ==
    IF Len(s.product_ids) = 0
    THEN {[err |-> "none", results |-> <<>>, similarities |-> <<>>, store |-> s]}
    ELSE LET s1 == get_embedding_matrix(s)
             rows == s1.embedding_matrix.rows
             fitted == [i \in 1..s.embedding_dim |->
                          IF i <= Len(query_embedding) THEN query_embedding[i] ELSE 0]
         IN UNION {
              { [err |-> "none",
                 results |-> ResultList(s1, sims, TopIndices(p, top_k)),
                 similarities |-> sims,
                 store |-> s1]
                : p \in ArgsortOutcomes(sims) }
              : sims \in { Similarities(nrows, NormalizeQuery(fitted))
                           : nrows \in NormalizedOutcomes(rows, s.embedding_dim) } }

\* VectorStore.search: the set of outcomes [err, results, similarities, store];
\* similarities is the local score array, one score per row of the matrix
search(s, query_embedding, top_k) ==
    IF Len(s.product_ids) = 0
    THEN {[err |-> "none", results |-> <<>>, similarities |-> <<>>, store |-> s]}
    ELSE LET s1 == get_embedding_matrix(s)
             rows == s1.embedding_matrix.rows
         IN IF Len(query_embedding) # s.embedding_dim
            THEN {[err |-> "ValueError", results |-> <<>>, similarities |-> <<>>,
                   store |-> s1]}
            ELSE UNION {
                   { [err |-> "none",
                      results |-> ResultList(s1, sims, TopIndices(p, top_k)),
                      similarities |-> sims,
                      store |-> s1]
                     : p \in ArgsortOutcomes(sims) }
                   : sims \in { Similarities(nrows, NormalizeQuery(query_embedding))
                                : nrows \in NormalizedOutcomes(rows, s.embedding_dim) } }

(***************************************************************************)
(* QueryParser.  The regular expressions are applied to the token sequence: *)
(* \s+ is the gap between two tokens, (\d+) a token that begins with        *)
(* digits.  Matching is on the text as given (re.search without flags).     *)
(***************************************************************************)
\* tokens that begin with digits, and float() of those digits
NumberValue ==
    [t \in {"1", "5", "7", "9"} |->
        CASE t = "1" -> 1 [] t = "5" -> 5 [] t = "7" -> 7 [] t = "9" -> 9]
NumberTokens == DOMAIN NumberValue
\* tokens made of digits only (a (\d+) that must be followed by \s)
DigitTokens == NumberTokens

\* str.lower() of a token
LowerToken(t) ==
    CASE t = "UNDER" -> "under"
      [] t = "OVER" -> "over"
      [] t = "BETWEEN" -> "between"
      [] t = "AND" -> "and"
      [] t = "RED" -> "red"
      [] t = "Shoes" -> "shoes"
      [] t = "Unknown" -> "unknown"
      [] OTHER -> t
\* str.lower() of a text
LowerText(text) == [i \in 1..Len(text) |-> LowerToken(text[i])]

\* the colors list of extract_filters, in its order
colors ==
    <<"white", "black", "red", "blue", "green", "yellow", "purple", "pink",
      "orange", "brown", "grey", "gray", "navy">>

\* `color in text`: the color is a substring of some token of the text
ContainsColor(text, color) == \E i \in 1..Len(text) : text[i] = color

SetMin(S) == CHOOSE x \in S : \A y \in S : x <= y

\* start positions of the matches of r'under\s+(\d+)'
UnderMatches(q) ==
    {i \in 1..(Len(q) - 1) : q[i] = "under" /\ q[i + 1] \in NumberTokens}
\* start positions of the matches of r'over\s+(\d+)'
OverMatches(q) ==
    {i \in 1..(Len(q) - 1) : q[i] = "over" /\ q[i + 1] \in NumberTokens}
\* start positions of the matches of r'between\s+(\d+)\s+and\s+(\d+)'
BetweenMatches(q) ==
    {i \in 1..(Len(q) - 3) :
        /\ q[i] = "between" /\ q[i + 1] \in DigitTokens
        /\ q[i + 2] = "and" /\ q[i + 3] \in NumberTokens}

\* the first color of the list found in the lowercased text, as a one-entry
\* or empty set
FirstColor(q) ==
    LET found == {c \in 1..Len(colors) : ContainsColor(LowerText(q), colors[c])}
    IN IF found = {} THEN {} ELSE {colors[SetMin(found)]}

\* extract_filters with the between rule applied before under and over
extract_filters_BetweenFirst(q) ==
    LET f0 == <<>>
        f1 == IF BetweenMatches(q) # {}
              THEN DictSet(DictSet(f0, "min_price", NumberValue[q[SetMin(BetweenMatches(q)) + 1]]),
                           "max_price", NumberValue[q[SetMin(BetweenMatches(q)) + 3]])
              ELSE f0
        f2 == IF UnderMatches(q) # {}
              THEN DictSet(f1, "max_price", NumberValue[q[SetMin(UnderMatches(q)) + 1]])
              ELSE f1
        f3 == IF OverMatches(q) # {}
              THEN DictSet(f2, "min_price", NumberValue[q[SetMin(OverMatches(q)) + 1]])
              ELSE f2
    IN IF FirstColor(q) # {}
       THEN DictSet(f3, "color", CHOOSE c \in FirstColor(q) : TRUE)
       ELSE f3

\* QueryParser.extract_filters: the filters dict, a function on the keys set
extract_filters(q) ==
    LET f0 == <<>>
        f1 == IF UnderMatches(q) # {}
              THEN DictSet(f0, "max_price", NumberValue[q[SetMin(UnderMatches(q)) + 1]])
              ELSE f0
        f2 == IF OverMatches(q) # {}
              THEN DictSet(f1, "min_price", NumberValue[q[SetMin(OverMatches(q)) + 1]])
              ELSE f1
        f3 == IF BetweenMatches(q) # {}
              THEN DictSet(DictSet(f2, "min_price", NumberValue[q[SetMin(BetweenMatches(q)) + 1]]),
                           "max_price", NumberValue[q[SetMin(BetweenMatches(q)) + 3]])
              ELSE f2
    IN IF FirstColor(q) # {}
       THEN DictSet(f3, "color", CHOOSE c \in FirstColor(q) : TRUE)
       ELSE f3

\* filters.get(key): [found, value]
DictGet(f, key) ==
    IF key \in DOMAIN f THEN [found |-> TRUE, value |-> f[key]]
    ELSE [found |-> FALSE, value |-> 0]

(***************************************************************************)
(* EmbeddingService.  TfidfVectorizer(stop_words='english',                *)
(* ngram_range=(1, 2), max_features): a text is lowercased, tokens shorter  *)
(* than two characters and stop words are dropped, the terms are the        *)
(* unigrams and bigrams of what is left, and fit keeps the sorted set of    *)
(* terms of the corpus; fit raises ValueError when that set is empty.       *)
(* A vector holds the number of occurrences of each vocabulary term (the    *)
(* positive idf weights and the row normalisation are left out).            *)
(***************************************************************************)
max_features == 5000

\* tokens of the 'english' stop list
StopWords == {"under", "over", "between", "and", "the"}
\* tokens of fewer than two characters
ShortTokens == {"1", "5", "7", "9"}
\* alphabetical rank of the tokens that can be terms
TokenRank(t) ==
    CASE t = "blue" -> 1 [] t = "brand" -> 2 [] t = "clothing" -> 3
      [] t = "color" -> 4 [] t = "ecommerce" -> 5 [] t = "electronics" -> 6
      [] t = "furniture" -> 7 [] t = "hat" -> 8 [] t = "price" -> 9
      [] t = "product" -> 10 [] t = "red" -> 11 [] t = "search" -> 12
      [] t = "shoes" -> 13 [] t = "size" -> 14 [] t = "unknown" -> 15
      [] OTHER -> 16

RECURSIVE Analyze(_)
\* the analyzer: lowercase, drop short tokens and stop words
Analyze(text) ==
    IF text = <<>> THEN <<>>
    ELSE LET t == LowerToken(Head(text))
         IN IF t \in StopWords \cup ShortTokens
            THEN Analyze(Tail(text))
            ELSE <<t>> \o Analyze(Tail(text))

\* the unigrams and bigrams of one text, with repetitions, as a sequence
NGrams(text) ==
    LET a == Analyze(text)
    IN [i \in 1..Len(a) |-> <<a[i]>>]
       \o [i \in 1..(Len(a) - 1) |-> <<a[i], a[i + 1]>>]

\* the set of terms of a corpus
CorpusTerms(texts) ==
    UNION {{NGrams(texts[d])[i] : i \in 1..Len(NGrams(texts[d]))} : d \in 1..Len(texts)}

\* term order: by first token, a unigram before the bigrams it starts
TermLess(x, y) ==
    \/ TokenRank(x[1]) < TokenRank(y[1])
    \/ /\ x[1] = y[1]
       /\ \/ Len(x) < Len(y)
          \/ Len(x) = 2 /\ Len(y) = 2 /\ TokenRank(x[2]) < TokenRank(y[2])

\* the terms of S in term order: the i-th has i - 1 terms before it
SortTerms(S) ==
    [i \in 1..Cardinality(S) |->
        CHOOSE x \in S : Cardinality({y \in S : TermLess(y, x)}) = i - 1]

\* the terms kept when the corpus has more than max_features of them
LimitFeatures(S) ==
    IF Cardinality(S) <= max_features THEN S
    ELSE CHOOSE T \in SUBSET S : Cardinality(T) = max_features

\* the element of a one-element set; a value built this way from a bound
\* variable is computed once however often it is used
TheOne(S) == CHOOSE x \in S : TRUE

\* EmbeddingService.__init__
NewEmbeddingService == [is_fitted |-> FALSE, vocabulary |-> <<>>]

\* EmbeddingService.fit: [err, vectorizer]
fit(vz, texts) ==
    TheOne({ IF terms = {}
             THEN [err |-> "ValueError", vectorizer |-> vz]
             ELSE [err |-> "none",
                   vectorizer |-> [is_fitted |-> TRUE,
                                   vocabulary |-> SortTerms(LimitFeatures(terms))]]
             : terms \in {CorpusTerms(texts)} })

\* vectorizer.transform([text]).toarray()[0]
transform(vz, text) ==
    [j \in 1..Len(vz.vocabulary) |->
        Cardinality({i \in 1..Len(NGrams(text)) : NGrams(text)[i] = vz.vocabulary[j]})]

\* EmbeddingService.embed_text: [err, vectorizer, vector]
embed_text(vz, text) ==
    TheOne({ IF f.err # "none"
             THEN [err |-> f.err, vectorizer |-> f.vectorizer, vector |-> <<>>]
             ELSE [err |-> "none", vectorizer |-> f.vectorizer,
                   vector |-> transform(f.vectorizer, text)]
             : f \in {IF ~vz.is_fitted THEN fit(vz, <<text>>)
                      ELSE [err |-> "none", vectorizer |-> vz]} })

\* the " ".join of the non-empty parts; specifications are rendered "key: value"
RECURSIVE JoinTexts(_)
JoinTexts(parts) ==
    IF parts = <<>> THEN <<>> ELSE Head(parts) \o JoinTexts(Tail(parts))

\* EmbeddingService.get_product_text
get_product_text(product) ==
    JoinTexts(<<product.name, product.brand, product.category, product.description>>
              \o product.specifications)

RECURSIVE Dedup(_)
\* the distinct elements of a sequence in order of first occurrence
Dedup(seq) ==
    IF seq = <<>> THEN <<>>
    ELSE LET init == Dedup(SubSeq(seq, 1, Len(seq) - 1))
             x == seq[Len(seq)]
         IN IF \E i \in 1..Len(init) : init[i] = x THEN init ELSE Append(init, x)

\* EmbeddingService.embed_products: [err, vectorizer, keys, embeddings], the
\* dict product id -> vector and its keys in insertion order
embed_products(vz, products) ==
    LET product_texts == [i \in 1..Len(products) |-> get_product_text(products[i])]
    IN TheOne({
         IF f.err # "none"
         THEN [err |-> f.err, vectorizer |-> f.vectorizer, keys |-> <<>>, embeddings |-> <<>>]
         ELSE [err |-> "none", vectorizer |-> f.vectorizer,
               keys |-> Dedup([i \in 1..Len(products) |-> products[i].id]),
               embeddings |->
                  [id \in {products[i].id : i \in 1..Len(products)} |->
                      transform(f.vectorizer,
                                product_texts[CHOOSE i \in 1..Len(products) :
                                    /\ products[i].id = id
                                    /\ \A j \in (i + 1)..Len(products) : products[j].id # id])]]
         : f \in {IF ~vz.is_fitted THEN fit(vz, product_texts)
                  ELSE [err |-> "none", vectorizer |-> vz]} })

(***************************************************************************)
(* ProductCatalog                                                          *)
(***************************************************************************)
\* `needle.lower() in text.lower()` for a one-token needle
ContainsToken(text, needle) ==
    \E i \in 1..Len(text) : LowerToken(text[i]) = LowerToken(needle)

\* ProductCatalog.filter_products; each criterion is [found, value], found
\* FALSE standing for None
filter_products(products, min_price, max_price, brand, category, color) ==
    LET f1 == IF min_price.found
              THEN SelectSeq(products, LAMBDA p : p.discounted_price >= min_price.value)
              ELSE products
        f2 == IF max_price.found
              THEN SelectSeq(f1, LAMBDA p : p.discounted_price <= max_price.value)
              ELSE f1
        f3 == IF brand.found
              THEN SelectSeq(f2, LAMBDA p : ContainsToken(p.brand, brand.value))
              ELSE f2
        f4 == IF category.found
              THEN SelectSeq(f3, LAMBDA p : ContainsToken(p.category, category.value))
              ELSE f3
    IN IF color.found
       THEN SelectSeq(f4, LAMBDA p : \/ ContainsToken(p.name, color.value)
                                     \/ ContainsToken(p.description, color.value))
       ELSE f4

\* ProductCatalog.get_product_by_id: [found, value]; _id_to_product keeps the
\* last product added under an id
get_product_by_id(products, product_id) ==
    IF \E i \in 1..Len(products) : products[i].id = product_id
    THEN [found |-> TRUE,
          value |-> products[CHOOSE i \in 1..Len(products) :
                        /\ products[i].id = product_id
                        /\ \A j \in (i + 1)..Len(products) : products[j].id # product_id]]
    ELSE [found |-> FALSE, value |-> <<>>]

(***************************************************************************)
(* ProductRetriever                                                        *)
(***************************************************************************)
None == [found |-> FALSE, value |-> 0]

RECURSIVE AddAll(_, _, _)
\* add_embedding for each key of a dict in turn, stopping at the first error:
\* [err, store]
AddAll(s, keys, embeddings) ==
    IF keys = <<>> THEN [err |-> "none", store |-> s]
    ELSE LET r == add_embedding(s, Head(keys), embeddings[Head(keys)])
         IN IF r.err # "none" THEN r ELSE AddAll(r.store, Tail(keys), embeddings)

\* ProductRetriever.index_products: [err, vectorizer, store]
index_products(products, s, vz) ==
    TheOne({ IF e.err # "none"
             THEN [err |-> e.err, vectorizer |-> e.vectorizer, store |-> s]
             ELSE [err |-> AddAll(s, e.keys, e.embeddings).err,
                   vectorizer |-> e.vectorizer,
                   store |-> AddAll(s, e.keys, e.embeddings).store]
             : e \in {embed_products(vz, products)} })

RECURSIVE temp_store_First(_, _, _)
\* the temporary store filled with the first filtered product only
temp_store_First(temp, filtered, main) ==
    IF filtered = <<>> THEN [err |-> "none", store |-> temp]
    ELSE LET g == get_embedding(main, Head(filtered).id)
         IN IF g.found THEN add_embedding(temp, Head(filtered).id, g.value)
            ELSE temp_store_First(temp, Tail(filtered), main)

\* the temporary store filled with every embedding of the main index
temp_store_All(temp, filtered, main) == AddAll(temp, main.product_ids, main.embeddings)

RECURSIVE temp_store(_, _, _)
\* the loop filling the temporary store with the main index's embeddings of
\* the filtered products: [err, store]
temp_store(temp, filtered, main) ==
    IF filtered = <<>> THEN [err |-> "none", store |-> temp]
    ELSE LET g == get_embedding(main, Head(filtered).id)
             r == IF g.found THEN add_embedding(temp, Head(filtered).id, g.value)
                  ELSE [err |-> "none", store |-> temp]
         IN IF r.err # "none" THEN r ELSE temp_store(r.store, Tail(filtered), main)

RECURSIVE ResolveProducts(_, _)
\* the loop turning the search results into products, dropping the ids the
\* catalog does not know; the products are kept by id
ResolveProducts(products, results) ==
    IF results = <<>> THEN <<>>
    ELSE (IF get_product_by_id(products, Head(results).id).found
          THEN <<Head(results).id>> ELSE <<>>)
         \o ResolveProducts(products, Tail(results))

\* the ids of a product list
IdsOf(products) == [i \in 1..Len(products) |-> products[i].id]

\* str() of a non-negative int
Digit == <<"0", "1", "2", "3", "4", "5", "6", "7", "8", "9">>
RECURSIVE IntStr(_)
IntStr(n) == IF n < 10 THEN Digit[n + 1] ELSE IntStr(n \div 10) \o Digit[(n % 10) + 1]
\* the formatting of a float with an integral value inside an f-string
FloatStr(v) == IntStr(v) \o ".0"

RECURSIVE JoinAnd(_)
\* " and ".join(parts), parts a non-empty list
JoinAnd(parts) ==
    IF Len(parts) = 1 THEN parts[1]
    ELSE parts[1] \o " and " \o JoinAnd(Tail(parts))

\* _generate_explanation with the color fragment put first
_generate_explanation_ColorFirst(q, filters, products) ==
    LET d0 == <<>>
        d1 == IF "color" \in DOMAIN filters
              THEN Append(d0, "color " \o filters["color"]) ELSE d0
        d2 == IF "min_price" \in DOMAIN filters
              THEN Append(d1, "price over " \o FloatStr(filters["min_price"])) ELSE d1
        filter_descriptions ==
              IF "max_price" \in DOMAIN filters
              THEN Append(d2, "price under " \o FloatStr(filters["max_price"])) ELSE d2
    IN [query |-> q,
        filters_applied |-> filters,
        filter_description |->
            IF filter_descriptions # <<>>
            THEN [found |-> TRUE, value |-> JoinAnd(filter_descriptions)]
            ELSE [found |-> FALSE, value |-> ""],
        num_results |-> Len(products),
        results_summary |->
            IF products # <<>>
            THEN "Found " \o IntStr(Len(products)) \o " products matching your criteria"
            ELSE "No matching products found"]

\* ProductRetriever._generate_explanation; filter_description is [found, value],
\* found FALSE standing for None
_generate_explanation(q, filters, products) ==
    LET d0 == <<>>
        d1 == IF "min_price" \in DOMAIN filters
              THEN Append(d0, "price over " \o FloatStr(filters["min_price"])) ELSE d0
        d2 == IF "max_price" \in DOMAIN filters
              THEN Append(d1, "price under " \o FloatStr(filters["max_price"])) ELSE d1
        filter_descriptions ==
              IF "color" \in DOMAIN filters
              THEN Append(d2, "color " \o filters["color"]) ELSE d2
    IN [query |-> q,
        filters_applied |-> filters,
        filter_description |->
            IF filter_descriptions # <<>>
            THEN [found |-> TRUE, value |-> JoinAnd(filter_descriptions)]
            ELSE [found |-> FALSE, value |-> ""],
        num_results |-> Len(products),
        results_summary |->
            IF products # <<>>
            THEN "Found " \o IntStr(Len(products)) \o " products matching your criteria"
            ELSE "No matching products found"]

\* the value of a call that raised: no explanation was built
NoExplanation == [raised |-> TRUE]

\* ProductRetriever.retrieve: the set of outcomes [err, products, explanation,
\* filters, filtered, query_embedding, scoped, vectorizer, store]
retrieve(products, main, vz, q, top_k) ==
    LET filters == extract_filters(q)
        filtered == filter_products(products, DictGet(filters, "min_price"),
                                    DictGet(filters, "max_price"), None, None,
                                    DictGet(filters, "color"))
        e == embed_text(vz, q)
        failed(err, s) ==
            [err |-> err, products |-> <<>>, explanation |-> NoExplanation,
             filters |-> filters,
             filtered |-> IdsOf(filtered), query_embedding |-> e.vector,
             scoped |-> filtered # <<>>, vectorizer |-> e.vectorizer, store |-> s]
        done(r, s) ==
            IF r.err # "none" THEN failed(r.err, s)
            ELSE [err |-> "none", products |-> ResolveProducts(products, r.results),
                  explanation |->
                      _generate_explanation(q, filters,
                                           ResolveProducts(products, r.results)),
                  filters |-> filters, filtered |-> IdsOf(filtered),
                  query_embedding |-> e.vector, scoped |-> filtered # <<>>,
                  vectorizer |-> e.vectorizer, store |-> s]
    IN IF e.err # "none" THEN {failed(e.err, main)}
       ELSE IF filtered # <<>>
       THEN LET t == temp_store(NewStore(Len(e.vector)), filtered, main)
            IN IF t.err # "none" THEN {failed(t.err, main)}
               ELSE {done(r, main) : r \in search(t.store, e.vector, top_k)}
       ELSE {done(r, r.store) : r \in search(main, e.vector, top_k)}

(***************************************************************************)
(* The index on its own: inserts, matrix reads and searches in any order.  *)
(* lastOp holds the call that has just returned and what it returned; the  *)
(* caller takes it (Return) before the next call is made.                  *)
(***************************************************************************)
NoOp == [op |-> "idle"]
\* the API process before its startup handler has run: retriever = None
NoApp == [started |-> FALSE, retriever |-> FALSE, failed_at |-> "none"]
NoHist == [order |-> <<>>, vec |-> <<>>, overwrote |-> FALSE]
Idle == lastOp.op = "idle"

InitStore ==
    /\ store \in {NewStore(d) : d \in Dims}
    /\ hist = NoHist
    /\ query = <<>>
    /\ catalog = <<>>
    /\ vectorizer = NewEmbeddingService
    /\ lastOp = NoOp
    /\ app = NoApp

\* one add_embedding call; hist records what the caller inserted with a vector
\* of the index's dimension: the ids in first-insertion order, the latest vector
\* of each, and whether some id was given a new vector
AddEmbedding ==
    /\ Idle
    /\ \E id \in Ids, e \in InputVectors(store.embedding_dim) :
        LET r == add_embedding(store, id, e)
        IN /\ store' = r.store
           /\ hist' = IF Len(e) = store.embedding_dim
                      THEN [order |-> IF id \in DOMAIN hist.vec THEN hist.order
                                      ELSE hist.order \o <<id>>,
                            vec |-> DictSet(hist.vec, id, e),
                            overwrote |-> \/ hist.overwrote
                                          \/ /\ id \in DOMAIN hist.vec
                                             /\ hist.vec[id] # e]
                      ELSE hist
           /\ lastOp' = [op |-> "add_embedding", id |-> id, embedding |-> e,
                         err |-> r.err]
           /\ UNCHANGED <<app, query, catalog, vectorizer>>

\* one get_embedding_matrix call
GetEmbeddingMatrix ==
    /\ Idle
    /\ store' = get_embedding_matrix(store)
    /\ lastOp' = [op |-> "get_embedding_matrix",
                  rows |-> get_embedding_matrix(store).embedding_matrix.rows]
    /\ UNCHANGED <<app, hist, query, catalog, vectorizer>>

\* one search call
Search ==
    /\ Idle
    /\ \E q \in InputVectors(store.embedding_dim), k \in 0..MaxK :
        \E r \in search(store, q, k) :
            /\ store' = r.store
            /\ lastOp' = [op |-> "search", query |-> q, top_k |-> k,
                          err |-> r.err, results |-> r.results,
                          similarities |-> r.similarities]
            /\ UNCHANGED <<app, hist, query, catalog, vectorizer>>

\* the caller takes the result of the last call
Return ==
    /\ ~Idle
    /\ lastOp' = NoOp
    /\ UNCHANGED <<app, store, hist, query, catalog, vectorizer>>

NextStore == AddEmbedding \/ GetEmbeddingMatrix \/ Search \/ Return

SpecStore == InitStore /\ [][NextStore]_vars

(***************************************************************************)
(* Claims about the index (checked under SpecStore)                        *)
(***************************************************************************)
SearchReturned == lastOp.op = "search" /\ lastOp.err = "none"
Entries == Len(store.product_ids)
PosIn(seq, x) == CHOOSE i \in 1..Len(seq) : seq[i] = x

\* C2: a search with top_k = k >= 0 over an index of N entries returns exactly
\* min(k, N) results.
C2_SearchReturnsMinKN ==
    SearchReturned => Len(lastOp.results) = Min(lastOp.top_k, Entries)

\* C3: results of equal similarity come in ascending insertion order, and an
\* entry left out of the top k never ties with a selected entry inserted later.
C3_TiesInInsertionOrder ==
    SearchReturned =>
        /\ \A i, j \in 1..Len(lastOp.results) :
              (i < j /\ SimEq(lastOp.results[i].score, lastOp.results[j].score))
              => PosIn(store.product_ids, lastOp.results[i].id)
                   < PosIn(store.product_ids, lastOp.results[j].id)
        /\ \A i \in 1..Len(lastOp.results), u \in 1..Entries :
              ( /\ \A j \in 1..Len(lastOp.results) :
                      lastOp.results[j].id # store.product_ids[u]
                /\ SimEq(lastOp.similarities[u], lastOp.results[i].score) )
              => PosIn(store.product_ids, lastOp.results[i].id) < u

\* C5: an insert of a vector of the wrong length raises and leaves the entries,
\* the id list and the cached matrix as they were.
C5_FailedInsertLeavesIndexUnchanged ==
    [][ ( /\ lastOp'.op = "add_embedding"
          /\ Len(lastOp'.embedding) # store.embedding_dim )
        => ( lastOp'.err = "ValueError" /\ store' = store ) ]_vars

C5_Witness ==
    /\ lastOp.op = "add_embedding"
    /\ lastOp.err = "ValueError"
    /\ lastOp.id \in DOMAIN store.embeddings
    /\ store.embedding_matrix.present
    /\ Entries >= 2

\* C6: the id list is the distinct inserted ids in first-insertion order, each
\* entry is the latest vector inserted for its id, the cached matrix, when
\* present, has one row per id holding that latest vector, and a search ranks
\* the current entries.
C6_MatrixMatchesEntries ==
    /\ store.product_ids = hist.order
    /\ DOMAIN store.embeddings = DOMAIN hist.vec
    /\ \A id \in DOMAIN hist.vec : store.embeddings[id] = hist.vec[id]
    /\ store.embedding_matrix.present =>
          /\ Len(store.embedding_matrix.rows) = Len(hist.order)
          /\ \A i \in 1..Len(hist.order) :
                store.embedding_matrix.rows[i] = hist.vec[hist.order[i]]
    /\ (SearchReturned /\ Len(hist.order) > 0) =>
          /\ store.embedding_matrix.present
          /\ Len(lastOp.similarities) = Len(hist.order)
          /\ \A i \in 1..Len(hist.order) :
                Norm2(hist.vec[hist.order[i]]) > 0 =>
                   lastOp.similarities[i] =
                      SimOf(Dot(hist.vec[hist.order[i]], lastOp.query),
                            Norm2(hist.vec[hist.order[i]])
                              * NormalizeQuery(lastOp.query).n2)

C6_Witness ==
    /\ SearchReturned
    /\ hist.overwrote
    /\ Len(hist.order) >= 2
    /\ Len(lastOp.results) >= 2

\* C7: a stored vector of norm 0 scores exactly 0 against every query, a query
\* of norm 0 gives every entry the score 0, and a repeated call gives a
\* zero-norm row the same score.
C7_ZeroNormScoresZero ==
    SearchReturned =>
        /\ \A i \in 1..Len(lastOp.similarities) :
              Norm2(store.embeddings[store.product_ids[i]]) = 0
              => lastOp.similarities[i].num = 0
        /\ Norm2(lastOp.query) = 0 =>
              \A i \in 1..Len(lastOp.similarities) : lastOp.similarities[i].num = 0
        /\ \A r \in search(store, lastOp.query, lastOp.top_k) :
              \A i \in 1..Len(lastOp.similarities) :
                 Norm2(store.embeddings[store.product_ids[i]]) = 0
                 => SimEq(r.similarities[i], lastOp.similarities[i])

(***************************************************************************)
(* The query parser on its own: extract_filters applied to any text        *)
(***************************************************************************)
InitExtract ==
    /\ store = NewStore(1)
    /\ hist = NoHist
    /\ query \in ParserQueries
    /\ catalog = <<>>
    /\ vectorizer = NewEmbeddingService
    /\ lastOp = NoOp
    /\ app = NoApp

\* one extract_filters call
ExtractFilters ==
    /\ Idle
    /\ lastOp' = [op |-> "extract_filters", query |-> query,
                  filters |-> extract_filters(query)]
    /\ UNCHANGED <<app, store, hist, query, catalog, vectorizer>>

NextExtract == ExtractFilters

SpecExtract == InitExtract /\ [][NextExtract]_vars

(***************************************************************************)
(* Claims about the query parser (checked under SpecExtract)               *)
(***************************************************************************)
Extracted == lastOp.op = "extract_filters"

\* C4: two texts that differ only in letter case give the same filters; stated
\* on a text and its lowercased form.
C4_CaseInsensitive ==
    Extracted => extract_filters(LowerText(lastOp.query)) = lastOp.filters

\* first position i with text[i] = w, followed by a number token (0 if none)
FirstKeywordNumber(text, w) ==
    IF \E i \in 1..(Len(text) - 1) : text[i] = w /\ text[i + 1] \in NumberTokens
    THEN SetMin({i \in 1..(Len(text) - 1) : text[i] = w /\ text[i + 1] \in NumberTokens})
    ELSE 0
\* first position of "between X and Y" (0 if none)
FirstBetween(text) ==
    IF \E i \in 1..(Len(text) - 3) :
          <<text[i], text[i + 2]>> = <<"between", "and">>
          /\ {text[i + 1], text[i + 3]} \subseteq NumberTokens
    THEN SetMin({i \in 1..(Len(text) - 3) :
                    <<text[i], text[i + 2]>> = <<"between", "and">>
                    /\ {text[i + 1], text[i + 3]} \subseteq NumberTokens})
    ELSE 0

\* C9: when "between X and Y" matches, min_price = X and max_price = Y
\* whatever "under N" or "over M" occurs; when it does not, min_price comes
\* from "over" alone and max_price from "under" alone, and a field whose
\* pattern does not match is absent.
C9_BetweenOverrides ==
    Extracted =>
        LET q == lastOp.query
            f == lastOp.filters
            b == FirstBetween(q)
            u == FirstKeywordNumber(q, "under")
            o == FirstKeywordNumber(q, "over")
        IN IF b > 0
           THEN /\ {"min_price", "max_price"} \subseteq DOMAIN f
                /\ f["min_price"] = NumberValue[q[b + 1]]
                /\ f["max_price"] = NumberValue[q[b + 3]]
           ELSE /\ ("min_price" \in DOMAIN f) = (o > 0)
                /\ o > 0 => f["min_price"] = NumberValue[q[o + 1]]
                /\ ("max_price" \in DOMAIN f) = (u > 0)
                /\ u > 0 => f["max_price"] = NumberValue[q[u + 1]]

\* "under N", "over M" and "between X and Y" all matched, with N # Y and M # X
C9_Witness ==
    /\ Extracted
    /\ FirstBetween(lastOp.query) > 0
    /\ FirstKeywordNumber(lastOp.query, "under") > 0
    /\ lastOp.filters["max_price"]
         # NumberValue[lastOp.query[FirstKeywordNumber(lastOp.query, "under") + 1]]
    /\ lastOp.filters["max_price"] # lastOp.filters["min_price"]

(***************************************************************************)
(* The retriever with its catalog, vectorizer and main index: the catalog   *)
(* is loaded once, then fits, embeds, indexing, direct inserts into the     *)
(* shared index and retrievals happen in any order.                         *)
(***************************************************************************)
NoText == <<>>
ProductA ==
    [id |-> "a", name |-> <<"red", "shoes">>, brand |-> NoText, category |-> NoText,
     description |-> NoText, specifications |-> <<>>, discounted_price |-> 5]
ProductB ==
    [id |-> "b", name |-> <<"blue", "shoes">>, brand |-> NoText, category |-> NoText,
     description |-> NoText, specifications |-> <<>>, discounted_price |-> 9]
ProductC ==
    [id |-> "c", name |-> <<"hat">>, brand |-> NoText, category |-> NoText,
     description |-> <<"RED">>, specifications |-> <<>>, discounted_price |-> 7]
AllProducts == {ProductA, ProductB, ProductC}
\* catalogs hold at most MaxCatalog products, each id once
MaxCatalog == 2
Catalogs ==
    {c \in UNION {[1..n -> AllProducts] : n \in 0..MaxCatalog} :
        \A i, j \in 1..Len(c) : i # j => c[i].id # c[j].id}
\* embedding_dim values the main index is constructed with
SystemDims == {3, 5}
\* texts of the retrieval requests
RetrieveQueries ==
    { <<"shoes">>, <<"red", "shoes">>, <<"shoes", "under", "1">>,
      <<"shoes", "under", "7">>, <<"hat">>, <<"under", "7">>,
      <<"red", "over", "1", "under", "7">> }
\* an id no product has
StrangerId == "x"
Ones(d) == [i \in 1..d |-> 1]

Init ==
    /\ store \in {NewStore(d) : d \in SystemDims}
    /\ hist = NoHist
    /\ query = <<>>
    /\ catalog \in Catalogs
    /\ vectorizer = NewEmbeddingService
    /\ lastOp = NoOp
    /\ app = NoApp

\* embedding_service.fit(texts) on the product texts or on one request text,
\* for the corpora fit is meant for: those with at least one term
Fit ==
    /\ Idle
    /\ \E texts \in {[i \in 1..Len(catalog) |-> get_product_text(catalog[i])]}
                     \cup {<<q>> : q \in RetrieveQueries} :
        LET r == fit(vectorizer, texts)
        IN /\ CorpusTerms(texts) # {}
           /\ vectorizer' = r.vectorizer
           /\ lastOp' = [op |-> "fit", texts |-> texts, err |-> r.err,
                         was |-> vectorizer]
    /\ UNCHANGED <<app, store, hist, query, catalog>>

\* embedding_service.embed_text(text)
EmbedText ==
    /\ Idle
    /\ \E text \in RetrieveQueries :
        LET r == embed_text(vectorizer, text)
        IN /\ vectorizer' = r.vectorizer
           /\ lastOp' = [op |-> "embed_text", text |-> text, err |-> r.err,
                         vector |-> r.vector, was |-> vectorizer]
    /\ UNCHANGED <<app, store, hist, query, catalog>>

\* embedding_service.embed_products(catalog.products)
EmbedProducts ==
    /\ Idle
    /\ LET r == embed_products(vectorizer, catalog)
       IN /\ vectorizer' = r.vectorizer
          /\ lastOp' = [op |-> "embed_products", err |-> r.err,
                        embeddings |-> r.embeddings, was |-> vectorizer]
    /\ UNCHANGED <<app, store, hist, query, catalog>>

\* retriever.index_products()
IndexProducts ==
    /\ Idle
    /\ LET r == index_products(catalog, store, vectorizer)
       IN /\ vectorizer' = r.vectorizer
          /\ store' = r.store
          /\ lastOp' = [op |-> "index_products", err |-> r.err]
    /\ UNCHANGED <<app, hist, query, catalog>>

\* vector_store.add_embedding called by another user of the shared index, for
\* an id no product has or for the last product of the catalog
InsertDirect ==
    /\ Idle
    /\ \E id \in {catalog[i].id : i \in {Len(catalog)} \ {0}} \cup {StrangerId} :
        LET r == add_embedding(store, id, Ones(store.embedding_dim))
        IN /\ store' = r.store
           /\ lastOp' = [op |-> "add_embedding", id |-> id,
                         embedding |-> Ones(store.embedding_dim), err |-> r.err]
    /\ UNCHANGED <<app, hist, query, catalog, vectorizer>>

\* retriever.retrieve(query, top_k)
Retrieve ==
    /\ Idle
    /\ \E q \in RetrieveQueries, k \in 0..MaxK :
        \E r \in retrieve(catalog, store, vectorizer, q, k) :
            /\ vectorizer' = r.vectorizer
            /\ store' = r.store
            /\ lastOp' = [op |-> "retrieve", query |-> q, top_k |-> k,
                          err |-> r.err, products |-> r.products,
                          explanation |-> r.explanation,
                          filters |-> r.filters, filtered |-> r.filtered,
                          query_embedding |-> r.query_embedding,
                          scoped |-> r.scoped, before |-> store,
                          was |-> vectorizer]
    /\ UNCHANGED <<app, hist, query, catalog>>

Next ==
    Fit \/ EmbedText \/ EmbedProducts \/ IndexProducts \/ InsertDirect
    \/ Retrieve \/ Return

Spec == Init /\ [][Next]_vars

(***************************************************************************)
(* Claims about the retriever and the vectorizer (checked under Spec)      *)
(***************************************************************************)
Retrieved == lastOp.op = "retrieve" /\ lastOp.err = "none"
CatalogIds == IdsOf(catalog)

\* C1: when the parser set a criterion and no catalog product passes the
\* filter, retrieve returns no product.
C1_NoFallbackOnEmptyFilter ==
    (Retrieved /\ DOMAIN lastOp.filters # {} /\ lastOp.filtered = <<>>)
    => lastOp.products = <<>>

\* the product ids a search of the main index, as it was when retrieve was
\* called, can give for the same embedding and top_k
FullIndexAnswers ==
    { ResolveProducts(catalog, r.results) :
        r \in { x \in search(lastOp.before, lastOp.query_embedding, lastOp.top_k) :
                  x.err = "none" } }

\* C8 as claimed: with no filter extracted, retrieve returns what a search of
\* the full main index returns, ids without a catalog record dropped.
C8_NoFilterSearchesFullIndex ==
    (Retrieved /\ DOMAIN lastOp.filters = {}) => lastOp.products \in FullIndexAnswers

\* every id of the main index has a catalog record and the ids are in catalog
\* order, as index_products leaves them
IndexFollowsCatalog(s) ==
    /\ \A i \in 1..Len(s.product_ids) : InList(s.product_ids[i], CatalogIds)
    /\ \A i, j \in 1..Len(s.product_ids) :
          i < j => PosIn(CatalogIds, s.product_ids[i]) < PosIn(CatalogIds, s.product_ids[j])

\* C8 amended: with no filter extracted and a main index whose ids all have a
\* catalog record and stand in catalog order, retrieve returns what a search of
\* the full main index returns.
C8_NoFilterMatchesFullIndex ==
    (Retrieved /\ DOMAIN lastOp.filters = {} /\ IndexFollowsCatalog(lastOp.before))
    => lastOp.products \in FullIndexAnswers

C8_Witness ==
    /\ Retrieved
    /\ DOMAIN lastOp.filters = {}
    /\ IndexFollowsCatalog(lastOp.before)
    /\ lastOp.scoped
    /\ Len(lastOp.products) = 2
    /\ lastOp.top_k = 2

\* C10: after each fit, embed_text and embed_products call the vectorizer is
\* fitted and it never becomes unfitted again; embed_text and embed_products
\* fit only an unfitted vectorizer (on the one text, on the product texts) and
\* leave the vocabulary of a fitted one as it is.
C10_FittedAfterEveryCall ==
    lastOp.op \in {"fit", "embed_text", "embed_products"} =>
        /\ vectorizer.is_fitted
        /\ (lastOp.op # "fit" /\ lastOp.was.is_fitted)
              => vectorizer.vocabulary = lastOp.was.vocabulary
        /\ (lastOp.op = "embed_text" /\ ~lastOp.was.is_fitted)
              => vectorizer.vocabulary = SortTerms(CorpusTerms(<<lastOp.text>>))
        /\ (lastOp.op = "embed_products" /\ ~lastOp.was.is_fitted)
              => vectorizer.vocabulary =
                    SortTerms(CorpusTerms([i \in 1..Len(catalog) |->
                                              get_product_text(catalog[i])]))

\* C11: a retrieve call made while the main index is empty returns normally
\* with no product, whatever the query, the catalog and the state of the
\* vectorizer; its explanation reports 0 results and the summary
\* "No matching products found".
C11_EmptyIndexReturnsEmpty ==
    (lastOp.op = "retrieve" /\ lastOp.before.product_ids = <<>>) =>
        /\ lastOp.err = "none"
        /\ lastOp.products = <<>>
        /\ lastOp.explanation.num_results = 0
        /\ lastOp.explanation.results_summary = "No matching products found"

\* the stored vectors that take part in the ranking of the last retrieve: those
\* of the filtered products when the filter kept any, else all of the index
RankedVectors ==
    IF lastOp.filtered # <<>>
    THEN {lastOp.before.embeddings[id] :
            id \in {lastOp.filtered[i] : i \in 1..Len(lastOp.filtered)}
                   \cap DOMAIN lastOp.before.embeddings}
    ELSE {lastOp.before.embeddings[id] : id \in DOMAIN lastOp.before.embeddings}

\* C13: when retrieve has embedded the query and a stored vector that takes
\* part in the ranking has another length than the query embedding, the call
\* ends in the dimension error (ValueError) and returns no product, on the
\* scoped path and on the full-index path.
C13_DimensionMismatchIsReported ==
    (/\ lastOp.op = "retrieve"
     /\ vectorizer.is_fitted
     /\ \E v \in RankedVectors : Len(v) # Len(vectorizer.vocabulary))
    => (lastOp.err = "ValueError" /\ lastOp.products = <<>>)

\* fit, index_products, a second fit that changes the vocabulary size, then a
\* retrieve whose filter keeps nothing: the full index is searched
C13_Witness ==
    /\ lastOp.op = "retrieve"
    /\ lastOp.was.is_fitted
    /\ lastOp.filtered = <<>>
    /\ lastOp.before.product_ids = CatalogIds
    /\ catalog # <<>>
    /\ \E v \in RankedVectors : Len(v) # Len(vectorizer.vocabulary)
    /\ lastOp.err = "ValueError"

\* the criteria in the order the claim gives them
CriteriaOrder == <<"min_price", "max_price", "color">>
\* how a price of the model's queries reads in a description
PriceText == [v \in {1, 5, 7, 9} |->
                 CASE v = 1 -> "1.0" [] v = 5 -> "5.0" [] v = 7 -> "7.0" [] v = 9 -> "9.0"]
\* the fragment the claim gives for one criterion of the last retrieve
Fragment(key) ==
    CASE key = "min_price" -> "price over " \o PriceText[lastOp.filters["min_price"]]
      [] key = "max_price" -> "price under " \o PriceText[lastOp.filters["max_price"]]
      [] key = "color" -> "color " \o lastOp.filters["color"]

\* C14: the explanation of a retrieve that returned echoes the query and the
\* extracted criteria; filter_description is the fragments of exactly the
\* criteria present, in the order min_price, max_price, color, joined by
\* " and ", and None when there is no criterion; num_results is the number of
\* returned products; results_summary is "Found N products matching your
\* criteria" for N > 0 and "No matching products found" for N = 0.
C14_ExplanationMatchesResult ==
    Retrieved =>
        LET x == lastOp.explanation
            n == Len(lastOp.products)
            present == SelectSeq(CriteriaOrder, LAMBDA k : k \in DOMAIN lastOp.filters)
        IN /\ x.query = lastOp.query
           /\ x.filters_applied = lastOp.filters
           /\ x.filter_description.found <=> present # <<>>
           /\ present # <<>> =>
                 x.filter_description.value
                    = JoinAnd([i \in 1..Len(present) |-> Fragment(present[i])])
           /\ x.num_results = n
           /\ x.results_summary =
                 IF n > 0
                 THEN "Found " \o Digit[n + 1] \o " products matching your criteria"
                 ELSE "No matching products found"

\* a retrieve with the three criteria that returned two products
C14_Witness ==
    /\ Retrieved
    /\ DOMAIN lastOp.filters = {"min_price", "max_price", "color"}
    /\ lastOp.explanation.filter_description
          = [found |-> TRUE, value |-> "price over 1.0 and price under 7.0 and color red"]
    /\ lastOp.explanation.results_summary = "Found 2 products matching your criteria"
    /\ Len(lastOp.products) = 2

\* the catalog product p meets every criterion the last retrieve extracted
Passes(p) ==
    /\ "min_price" \in DOMAIN lastOp.filters
          => p.discounted_price >= lastOp.filters["min_price"]
    /\ "max_price" \in DOMAIN lastOp.filters
          => p.discounted_price <= lastOp.filters["max_price"]
    /\ "color" \in DOMAIN lastOp.filters
          => \E t \in {p.name[i] : i \in 1..Len(p.name)}
                       \cup {p.description[i] : i \in 1..Len(p.description)} :
                LowerToken(t) = lastOp.filters["color"]

\* C15: when the catalog filter kept at least one product, every product
\* retrieve returns is one the filter kept, meets every extracted price bound
\* and the extracted color, and has an embedding in the main index; no
\* product is returned twice; and the main index holds the same entries in
\* the same id order after the call as before it.
C15_ScopedResultsWithinFilter ==
    (lastOp.op = "retrieve" /\ lastOp.filtered # <<>>) =>
        /\ \A i \in 1..Len(lastOp.products) :
              /\ InList(lastOp.products[i], lastOp.filtered)
              /\ \E k \in 1..Len(catalog) :
                    catalog[k].id = lastOp.products[i] /\ Passes(catalog[k])
              /\ lastOp.products[i] \in DOMAIN lastOp.before.embeddings
        /\ \A i, j \in 1..Len(lastOp.products) :
              i # j => lastOp.products[i] # lastOp.products[j]
        /\ store.embeddings = lastOp.before.embeddings
        /\ store.product_ids = lastOp.before.product_ids

\* a retrieve whose filter kept one of two indexed catalog products
C15_Witness ==
    /\ Retrieved
    /\ DOMAIN lastOp.filters # {}
    /\ Len(lastOp.filtered) = 1
    /\ Len(catalog) = 2
    /\ \A k \in 1..Len(catalog) : catalog[k].id \in DOMAIN lastOp.before.embeddings
    /\ lastOp.products = lastOp.filtered

(***************************************************************************)
(* The API process (backend/api/app.py): the module-level components, the   *)
(* startup handler, then query requests one at a time.  The server calls    *)
(* the startup handler once, before it serves the first request.            *)
(***************************************************************************)
\* the default embedding_dim of VectorStore()
DefaultEmbeddingDim == 768
\* dimensions of the module-level index: the default, and one that equals the
\* number of terms fit finds for the one-product catalogs
AppDims == {22, DefaultEmbeddingDim}
\* the texts startup always fits on
sample_texts ==
    << <<"product", "search", "ecommerce">>,
       <<"clothing", "furniture", "electronics">>,
       <<"price", "color", "size", "brand">> >>
\* how many products add their text to the sample
SampleProducts == 10

\* the data file: unreadable (load_from_tsv raises), without a column that
\* clean_dataframe needs (it raises), or a table of product rows
DataFiles ==
    {[readable |-> FALSE, clean |-> FALSE, rows |-> <<>>],
     [readable |-> TRUE, clean |-> FALSE, rows |-> <<>>]}
    \cup {[readable |-> TRUE, clean |-> TRUE, rows |-> c] : c \in Catalogs}

\* clean_dataframe's fillna('Unknown') on the brand column
FillBrand(p) == IF p.brand = NoText THEN [p EXCEPT !.brand = <<"Unknown">>] ELSE p

\* startup_event: [failed_at, retriever, catalog, vectorizer, store]; failed_at
\* is the step whose exception ended the handler, "none" when it ran through
startup_event(data, s, vz) ==
    IF ~data.readable
    THEN [failed_at |-> "load_from_tsv", retriever |-> FALSE, catalog |-> <<>>,
          vectorizer |-> vz, store |-> s]
    ELSE IF ~data.clean
    THEN [failed_at |-> "clean_dataframe", retriever |-> FALSE, catalog |-> <<>>,
          vectorizer |-> vz, store |-> s]
    ELSE LET products == [i \in 1..Len(data.rows) |-> FillBrand(data.rows[i])]
             texts == sample_texts
                      \o [i \in 1..Min(Len(products), SampleProducts) |->
                            get_product_text(products[i])]
         IN TheOne({
              IF f.err # "none"
              THEN [failed_at |-> "fit", retriever |-> TRUE, catalog |-> products,
                    vectorizer |-> f.vectorizer, store |-> s]
              ELSE TheOne({
                     [failed_at |-> IF x.err # "none" THEN "index_products" ELSE "none",
                      retriever |-> TRUE, catalog |-> products,
                      vectorizer |-> x.vectorizer, store |-> x.store]
                     : x \in {index_products(products, s, f.vectorizer)} })
              : f \in {fit(vz, texts)} })

\* query_products: the set of outcomes [status, detail, products, explanation,
\* vectorizer, store]
query_products(retriever, products, s, vz, q, top_k) ==
    IF ~retriever
    THEN {[status |-> 500, detail |-> "Retriever not initialized", products |-> <<>>,
           explanation |-> NoExplanation, vectorizer |-> vz, store |-> s]}
    ELSE {IF r.err = "none"
          THEN [status |-> 200, detail |-> "", products |-> r.products,
                explanation |-> r.explanation, vectorizer |-> r.vectorizer,
                store |-> r.store]
          ELSE [status |-> 500, detail |-> "Error processing query: " \o r.err,
                products |-> <<>>, explanation |-> NoExplanation,
                vectorizer |-> r.vectorizer, store |-> r.store]
          : r \in retrieve(products, s, vz, q, top_k)}

InitApp ==
    /\ store \in {NewStore(d) : d \in AppDims}
    /\ hist = NoHist
    /\ query = <<>>
    /\ catalog = <<>>
    /\ vectorizer = NewEmbeddingService
    /\ lastOp = NoOp
    /\ app = NoApp

\* the server runs the startup handler
StartupEvent ==
    /\ Idle
    /\ ~app.started
    /\ \E data \in DataFiles :
        \E r \in {startup_event(data, store, vectorizer)} :
           /\ catalog' = r.catalog
           /\ vectorizer' = r.vectorizer
           /\ store' = r.store
           /\ app' = [started |-> TRUE, retriever |-> r.retriever,
                      failed_at |-> r.failed_at]
           /\ lastOp' = [op |-> "startup_event", failed_at |-> r.failed_at]
    /\ UNCHANGED <<hist, query>>

\* POST /query
QueryProducts ==
    /\ Idle
    /\ app.started
    /\ \E q \in RetrieveQueries, k \in 0..MaxK :
        \E r \in query_products(app.retriever, catalog, store, vectorizer, q, k) :
            /\ vectorizer' = r.vectorizer
            /\ store' = r.store
            /\ lastOp' = [op |-> "query_products", query |-> q, top_k |-> k,
                          status |-> r.status, detail |-> r.detail,
                          products |-> r.products, explanation |-> r.explanation]
    /\ UNCHANGED <<app, hist, query, catalog>>

NextApp == StartupEvent \/ QueryProducts \/ Return

SpecApp == InitApp /\ [][NextApp]_vars

(***************************************************************************)
(* Claims about the API process (checked under SpecApp)                     *)
(***************************************************************************)
\* C12: when the startup handler failed at any step, the service is started
\* and every query request is answered with the error "Retriever not
\* initialized", never with a normal result; a request that fails is answered
\* with one error response.
C12_FailedStartupAnswersUninitialized ==
    lastOp.op = "query_products" =>
        /\ app.started
        /\ lastOp.status \in {200, 500}
        /\ lastOp.status = 500 => lastOp.products = <<>>
        /\ app.failed_at # "none" =>
              /\ lastOp.status = 500
              /\ lastOp.detail = "Retriever not initialized"

====
